---- MODULE Spec2Model ----
(***************************************************************************)
(* A model of the three data-preparation scripts of the repository:        *)
(*   scripts/prepare_personas_india.py  (load, clean, stratified sample,    *)
(*                                       write personas, write metadata)   *)
(*   scripts/_dl_geojson.py             (fetch from a list of mirrors)      *)
(*   scripts/download_india_geojson.py  (fetch, normalise, write)           *)
(* Strings are sequences of one-character strings, so that strip, split,   *)
(* join, upper and slicing are computed as Python computes them.           *)
(***************************************************************************)
EXTENDS Integers, Sequences, FiniteSets, TLC

VARIABLES
  script,       \* which program (or function under test) this behaviour runs
  pc,           \* position in that program
  exit_status,  \* "running", "ok" (status 0) or "error" (non-zero status)
  files,        \* the output artifacts written so far
  error,        \* the exception or diagnostic that ended the run, "" if none
  \* ---- prepare_personas_india.py
  input,        \* args.input: the sequence of parquet paths
  sample_size,  \* args.sample_size
  seed,         \* args.seed
  loadIdx,      \* number of paths read_parquets has handled
  frames,       \* rows of the frames loaded so far (concatenated)
  nframes,      \* number of frames appended so far
  df,           \* the table in main / stratified_sample
  sampled,      \* stratified_sample: the concatenated per-state draws
  out,          \* the frame stratified_sample returned
  personas,     \* the payload written to the personas file
  meta,         \* the metadata object
  \* ---- the GeoJSON scripts
  net,          \* what each URL answers during this run
  idx,          \* _dl_geojson: number of SOURCES tried
  tried,        \* the sources a fetch was attempted on, in order
  data,         \* the downloaded document (raw, then parsed), or NoData
  geojson,      \* the document written to india-states.geojson
  \* ---- compact_text
  value,        \* argument value
  max_len,      \* argument max_len
  compacted     \* the returned string

vars == << script, pc, exit_status, files, error, input, sample_size, seed, loadIdx,
           frames, nframes, df, sampled, out, personas, meta, net, idx, tried, data,
           geojson, value, max_len, compacted >>

personaVars == << input, sample_size, seed, loadIdx, frames, nframes, df,
                  sampled, out, personas, meta >>
geoVars     == << net, idx, tried, data, geojson >>
textVars    == << value, max_len, compacted >>

-----------------------------------------------------------------------------
(* Bounds of the model.                                                    *)
MaxTextLen == 5      \* longest argument of compact_text explored
MaxMaxLen  == 5      \* largest max_len explored for compact_text
MaxRows    == 3      \* longest cleaned table drawn for stratified_sample
MaxTarget  == 5      \* largest --sample-size explored
MaxSeed    == 1      \* largest --seed explored
MaxInputs  == 2      \* longest --input list explored

-----------------------------------------------------------------------------
(* Python strings.                                                         *)

Min(a, b) == IF a <= b THEN a ELSE b
Max(a, b) == IF a >= b THEN a ELSE b

\* str.isspace() for the characters of the model
Whitespace == {" ", "\t"}

RECURSIVE LStrip(_)
LStrip(s) == IF s = <<>> THEN s
             ELSE IF Head(s) \in Whitespace THEN LStrip(Tail(s)) ELSE s

RECURSIVE RStrip(_)
RStrip(s) == IF s = <<>> THEN s
             ELSE IF s[Len(s)] \in Whitespace
                  THEN RStrip(SubSeq(s, 1, Len(s) - 1)) ELSE s

\* str.strip()
Strip(s) == RStrip(LStrip(s))

\* str.upper() on one character
UpperChar(c) == CASE c = "a" -> "A" [] c = "b" -> "B" [] OTHER -> c

\* str.upper()
Upper(s) == [i \in 1..Len(s) |-> UpperChar(s[i])]

\* str.split(): the maximal runs of non-whitespace characters, in order
RECURSIVE SplitFrom(_, _, _)
SplitFrom(s, word, acc) ==
  IF s = <<>> THEN (IF word = <<>> THEN acc ELSE Append(acc, word))
  ELSE IF Head(s) \in Whitespace
       THEN SplitFrom(Tail(s), <<>>, IF word = <<>> THEN acc ELSE Append(acc, word))
       ELSE SplitFrom(Tail(s), Append(word, Head(s)), acc)

Split(s) == SplitFrom(s, <<>>, <<>>)

\* " ".join(words)
RECURSIVE Join(_)
Join(words) == IF words = <<>> THEN <<>>
               ELSE IF Len(words) = 1 THEN words[1]
               ELSE words[1] \o <<" ">> \o Join(Tail(words))

\* s[:k], negative k counting from the end as Python slices do
SliceTo(s, k) == IF k >= 0 THEN SubSeq(s, 1, Min(k, Len(s)))
                 ELSE SubSeq(s, 1, Max(0, Len(s) + k))

Ellipsis == <<".", ".", ".">>

\* " ".join(value.strip().split())
Collapse(s) == Join(Split(Strip(s)))

normalize_state(s) == Join(Split(Upper(Strip(s))))

\* the same function under its name in download_india_geojson.py
normalise(s) == Join(Split(Upper(Strip(s))))

compact_text_NoReserve(s, L) ==
  LET compact == Collapse(s)
  IN IF Len(compact) <= L THEN compact
     ELSE RStrip(SliceTo(compact, L)) \o Ellipsis

compact_text(s, L) ==
  LET compact == Collapse(s)
  IN IF Len(compact) <= L THEN compact
     ELSE RStrip(SliceTo(compact, L - 3)) \o Ellipsis

-----------------------------------------------------------------------------
(* String order, as sorted() orders Python strings: by code point.         *)

Ord(c) == CASE c = "\t" -> 9  [] c = " " -> 32 [] c = "." -> 46
            [] c = "A" -> 65  [] c = "B" -> 66 [] c = "C" -> 67
            [] c = "a" -> 97  [] c = "b" -> 98 [] OTHER -> 127

RECURSIVE StrLess(_, _)
StrLess(s, t) ==
  IF t = <<>> THEN FALSE
  ELSE IF s = <<>> THEN TRUE
  ELSE IF Ord(Head(s)) # Ord(Head(t)) THEN Ord(Head(s)) < Ord(Head(t))
  ELSE StrLess(Tail(s), Tail(t))

RECURSIVE InsertSorted(_, _)
InsertSorted(x, sorted) ==
  IF sorted = <<>> THEN <<x>>
  ELSE IF StrLess(x, Head(sorted)) THEN <<x>> \o sorted
  ELSE <<Head(sorted)>> \o InsertSorted(x, Tail(sorted))

RECURSIVE SortedOf(_)
SortedOf(xs) == IF xs = <<>> THEN <<>>
                ELSE InsertSorted(Head(xs), SortedOf(Tail(xs)))

\* the enumeration order of the states without the sort
Unsorted(xs) == xs

\* sorted(states)
Sorted(xs) == SortedOf(xs)

-----------------------------------------------------------------------------
(* polars frames are sequences of rows (records).                          *)

RemoveAt(f, i) == SubSeq(f, 1, i - 1) \o SubSeq(f, i + 1, Len(f))

\* the generator behind DataFrame.sample(seed=...): a fixed function of the seed
Rng(s) == (s * 75 + 74) % 65537

\* DataFrame.sample(n, with_replacement=False, shuffle=True, seed=s) for
\* n <= height: n distinct rows, picked and ordered by the seed alone
RECURSIVE Draw(_, _, _)
Draw(f, n, s) ==
  IF n = 0 THEN <<>>
  ELSE LET r == Rng(s)
           i == (r % Len(f)) + 1
       IN <<f[i]>> \o Draw(RemoveAt(f, i), n - 1, r)

\* df.filter(pl.col("state") == state)
FilterState(f, st) == SelectSeq(f, LAMBDA r : r.state = st)

\* df.select("state").unique(): the distinct values, in no guaranteed order
DistinctStates(f) == {f[i].state : i \in 1..Len(f)}

Orders(S) == {o \in [1..Cardinality(S) -> S] :
                 \A i, j \in 1..Cardinality(S) : i # j => o[i] # o[j]}

\* the list of states without the filter on empty values
KeepAllStates(order) == order

\* [s for s in states if isinstance(s, str) and s]
NonEmptyStates(order) == SelectSeq(order, LAMBDA st : st # <<>>)

\* the per-state target without the floor of one
PerStateTargetNoFloor(n, states) == n \div Len(states)

\* max(1, sample_size // len(states))
PerStateTarget(n, states) == Max(1, n \div Len(states))

\* the loop over enumerate(sorted(states)) and the concat of its draws
RECURSIVE DrawStates(_, _, _, _, _)
DrawStates(f, ordered, i, per, sd) ==
  IF i > Len(ordered) THEN <<>>
  ELSE LET state_df == FilterState(f, ordered[i])
           n == Min(per, Len(state_df))
       IN (IF Len(state_df) = 0 THEN <<>> ELSE Draw(state_df, n, sd + (i - 1)))
          \o DrawStates(f, ordered, i + 1, per, sd)

\* lines 151-171 for a frame with at least one usable state
PerStateDraws(f, n, sd, discovered) ==
  LET states == NonEmptyStates(discovered)
  IN DrawStates(f, Sorted(states), 1, PerStateTarget(n, states), sd)

TrimSeedOffset  == 997
TopUpSeedOffset == 2048

\* the pool returned as it is, without the trim
KeepPool(pool, n, sd) == pool

\* sampled.sample(n=sample_size, ..., seed=seed + 997)
TrimDraw(pool, n, sd) == Draw(pool, n, sd + TrimSeedOffset)

Uuids(f) == {f[i].uuid : i \in 1..Len(f)}

\* the top-up without the anti-join: drawn from the whole of df
WholeFrame(f, pool) == f

\* df.join(sampled.select("uuid"), on="uuid", how="anti")
AntiJoin(f, pool) == SelectSeq(f, LAMBDA r : r.uuid \notin Uuids(pool))

\* n=min(remaining_count, max(0, df.height - sampled.height))
TopUpCount(f, pool, n) == Min(n - Len(pool), Max(0, Len(f) - Len(pool)))

-----------------------------------------------------------------------------
(* Idle values of the variables a program does not use.                    *)

NoData == [kind |-> "none", origin |-> 0, features |-> <<>>]

IdlePersona ==
  /\ input = <<>> /\ sample_size = 0 /\ seed = 0 /\ loadIdx = 0
  /\ frames = <<>> /\ nframes = 0 /\ df = <<>> /\ sampled = <<>> /\ out = <<>>
  /\ personas = <<>> /\ meta = <<>>

IdleGeo == net = <<>> /\ idx = 0 /\ tried = <<>> /\ data = NoData /\ geojson = NoData

IdleText == value = <<>> /\ max_len = 0 /\ compacted = <<>>

-----------------------------------------------------------------------------
(* stratified_sample(df, sample_size, seed).  These actions are the body   *)
(* of the function; main runs them between cleaning and writing.            *)

InSampler == script \in {"stratified_sample", "prepare_personas_india"}

\* lines 151-155: no usable state, RuntimeError("No states found ...")
NoStates ==
  /\ InSampler /\ pc = "sample"
  /\ \E discovered \in Orders(DistinctStates(df)) :
        NonEmptyStates(discovered) = <<>>
  /\ pc' = "fatal" /\ exit_status' = "error"
  /\ error' = "RuntimeError: No states found after cleaning."
  /\ UNCHANGED << script, files, personaVars, geoVars, textVars >>

\* lines 151-171: enumerate the states and concatenate the per-state draws
DrawPerState ==
  /\ InSampler /\ pc = "sample"
  /\ \E discovered \in Orders(DistinctStates(df)) :
        /\ NonEmptyStates(discovered) # <<>>
        /\ sampled' = PerStateDraws(df, sample_size, seed, discovered)
  /\ pc' = "drawn"
  /\ UNCHANGED << script, exit_status, files, error, input, sample_size, seed, loadIdx,
                  frames, nframes, df, out, personas, meta, geoVars, textVars >>

\* lines 173-176: the pool reaches the target, trim it to sample_size
TrimToSize ==
  /\ InSampler /\ pc = "drawn"
  /\ Len(sampled) >= sample_size
  /\ out' = TrimDraw(sampled, sample_size, seed)
  /\ pc' = "sampled"
  /\ UNCHANGED << script, exit_status, files, error, input, sample_size, seed, loadIdx,
                  frames, nframes, df, sampled, personas, meta, geoVars, textVars >>

\* lines 178-186: the pool is short, top it up from the rows not in it
TopUp ==
  /\ InSampler /\ pc = "drawn"
  /\ Len(sampled) < sample_size
  /\ LET remaining == AntiJoin(df, sampled)
         n == TopUpCount(df, sampled, sample_size)
     IN /\ n <= Len(remaining)
        /\ out' = sampled \o Draw(remaining, n, seed + TopUpSeedOffset)
  /\ pc' = "sampled"
  /\ UNCHANGED << script, exit_status, files, error, input, sample_size, seed, loadIdx,
                  frames, nframes, df, sampled, personas, meta, geoVars, textVars >>

\* lines 180-185: sample() is asked for more rows than the anti-join left
\* (possible when df repeats a uuid) and raises
TopUpShort ==
  /\ InSampler /\ pc = "drawn"
  /\ Len(sampled) < sample_size
  /\ TopUpCount(df, sampled, sample_size) > Len(AntiJoin(df, sampled))
  /\ pc' = "fatal" /\ exit_status' = "error"
  /\ error' = "ShapeError: cannot take a larger sample than the total population"
  /\ UNCHANGED << script, files, personaVars, geoVars, textVars >>

-----------------------------------------------------------------------------
(* The metadata of main, lines 289-302.                                    *)

\* sampled.group_by("state").len(): each distinct state with its row count
StateCounts(f) == [st \in DistinctStates(f) |-> Len(FilterState(f, st))]

\* sampled.group_by("sex").len()
SexCounts(f) ==
  [sx \in {f[i].sex : i \in 1..Len(f)} |-> Len(SelectSeq(f, LAMBDA r : r.sex = sx))]

Ages(f) == {f[i].age : i \in 1..Len(f)}

\* the age of the first row, not the minimum
FirstAge(f) == f[1].age

\* sampled["age"].min()
AgeMin(f) == CHOOSE a \in Ages(f) : \A b \in Ages(f) : a <= b

\* sampled["age"].max()
AgeMax(f) == CHOOSE a \in Ages(f) : \A b \in Ages(f) : a >= b

\* the meta dict; total is len(personas)
MetaOf(f, written, sd) ==
  [total      |-> Len(written),
   seed       |-> sd,
   states     |-> StateCounts(f),
   age_min    |-> AgeMin(f),
   age_max    |-> AgeMax(f),
   sex_counts |-> SexCounts(f)]

\* lines 289-301 on a sample with rows
Summarize ==
  /\ \/ script = "prepare_personas_india" /\ pc = "written"
     \/ script = "stratified_sample" /\ pc = "sampled"
  /\ Len(out) > 0
  /\ meta' = MetaOf(out, IF script = "stratified_sample" THEN out ELSE personas, seed)
  /\ pc' = "summarized"
  /\ UNCHANGED << script, exit_status, files, error, input, sample_size, seed, loadIdx,
                  frames, nframes, df, sampled, out, personas, geoVars, textVars >>

\* lines 295-296 on an empty sample: min() is None and int(None) raises
SummarizeEmpty ==
  /\ \/ script = "prepare_personas_india" /\ pc = "written"
     \/ script = "stratified_sample" /\ pc = "sampled"
  /\ Len(out) = 0
  /\ pc' = "fatal" /\ exit_status' = "error"
  /\ error' = "TypeError: int() argument must be a string or a number, not NoneType"
  /\ UNCHANGED << script, files, personaVars, geoVars, textVars >>

(* stratified_sample as a program: every cleaned table of up to MaxRows    *)
(* rows over two states and the empty state, with every pattern of equal   *)
(* and distinct uuids, and the coverage scenario of three states of sizes  *)
(* 10, 2 and 10.  The sampler only compares uuids for equality, so a table *)
(* is drawn with its uuids numbered in order of first appearance.          *)

SampleKeys == {<<>>, <<"A">>, <<"B">>}

\* a row's age and sex are fixed by its uuid
AgeOfUuid(u) == 18 + 10 * (u % 8)
SexOfUuid(u) == IF u % 2 = 1 THEN "F" ELSE "M"

SampleRow(u, st) == [uuid |-> u, state |-> st, age |-> AgeOfUuid(u), sex |-> SexOfUuid(u)]

\* the uuids a next row can carry: one already in the table, or a new one
NextUuids(t) == 1..(Cardinality(Uuids(t)) + 1)

RECURSIVE TablesOfLen(_)
TablesOfLen(n) ==
  IF n = 0 THEN {<<>>}
  ELSE {Append(t, SampleRow(u, st)) :
          t \in TablesOfLen(n - 1), u \in 1..n, st \in SampleKeys}

Tables ==
  {t \in UNION {TablesOfLen(n) : n \in 0..MaxRows} :
     \A i \in 1..Len(t) : t[i].uuid \in NextUuids(SubSeq(t, 1, i - 1))}

ScenarioTable ==
  [i \in 1..22 |-> [uuid |-> i,
                    state |-> IF i <= 10 THEN <<"A">>
                              ELSE IF i <= 12 THEN <<"B">> ELSE <<"C">>,
                    age |-> AgeOfUuid(i), sex |-> SexOfUuid(i)]]

InitSample ==
  /\ script = "stratified_sample" /\ pc = "sample" /\ exit_status = "running"
  /\ files = {} /\ error = ""
  /\ \/ df \in Tables /\ sample_size \in 0..MaxTarget
     \/ df = ScenarioTable /\ sample_size = 9
  /\ seed \in 0..MaxSeed
  /\ input = <<>> /\ loadIdx = 0 /\ frames = <<>> /\ nframes = 0
  /\ sampled = <<>> /\ out = <<>> /\ personas = <<>> /\ meta = <<>>
  /\ IdleGeo /\ IdleText

NextSample ==
  \/ NoStates \/ DrawPerState \/ TrimToSize \/ TopUp \/ TopUpShort
  \/ Summarize \/ SummarizeEmpty

SpecSample == InitSample /\ [][NextSample]_vars

-----------------------------------------------------------------------------
(* prepare_personas_india.py: main.  A raw row carries the six columns the *)
(* cleaning looks at; nulls names its null cells.  The parquet files that  *)
(* --input can name are a fixed catalogue.                                 *)

CriticalColumns ==
  {"uuid", "state", "persona_professional", "age", "sex", "occupation"}

Raw(u, st, a, sx, persona, nulls) ==
  [uuid |-> u, state |-> st, age |-> a, sex |-> sx, occupation |-> "clerk",
   persona_professional |-> persona, nulls |-> nulls, blank |-> {}]

Plain == <<"a", " ", " ", "b", "\t">>

Paths == {"clean.parquet", "dirty.parquet", "rejects.parquet", "nostate.parquet",
          "noage.parquet", "absent.parquet"}

\* what pl.read_parquet(p) finds: loadable or not, the columns the file
\* lacks, and its rows
Shard(p) ==
  CASE p = "clean.parquet" ->
         [loadable |-> TRUE, missing |-> {},
          rows |-> << Raw(1, <<"a">>, 18, "F", Plain, {}),
                      Raw(2, <<" ", "A", "\t">>, 40, "M", Plain, {}),
                      Raw(3, <<"b">>, 100, "F", Plain, {}) >>]
    [] p = "dirty.parquet" ->
         [loadable |-> TRUE, missing |-> {},
          rows |-> << Raw(4, <<" ", "\t">>, 30, "M", Plain, {}),
                      Raw(8, <<"a">>, 50, "M", Plain, {"sex"}),
                      Raw(9, <<"a", " ", "\t", "b">>, 65, "F", <<" ">>, {}) >>]
    [] p = "rejects.parquet" ->
         [loadable |-> TRUE, missing |-> {},
          rows |-> << Raw(5, <<"a">>, 25, "F", Plain, {"state"}),
                      Raw(6, <<"b">>, 17, "M", Plain, {}),
                      Raw(7, <<"b">>, 101, "F", Plain, {}) >>]
    [] p = "nostate.parquet" ->
         [loadable |-> TRUE, missing |-> {"state"},
          rows |-> << Raw(10, <<>>, 22, "F", Plain, {}),
                      Raw(11, <<>>, 33, "M", Plain, {"age"}) >>]
    [] p = "noage.parquet" ->
         [loadable |-> TRUE, missing |-> {"age"},
          rows |-> << Raw(12, <<"a">>, 0, "F", Plain, {}) >>]
    [] OTHER ->
         [loadable |-> FALSE, missing |-> {}, rows |-> <<>>]

\* lines 136-143: a column the file lacks becomes pl.lit("") in every row
FillMissing(sh) ==
  [i \in 1..Len(sh.rows) |->
     LET r == sh.rows[i]
     IN [uuid |-> r.uuid,
         state |-> IF "state" \in sh.missing THEN <<>> ELSE r.state,
         age |-> r.age,
         sex |-> IF "sex" \in sh.missing THEN "" ELSE r.sex,
         occupation |-> IF "occupation" \in sh.missing THEN "" ELSE r.occupation,
         persona_professional |->
           IF "persona_professional" \in sh.missing THEN <<>>
           ELSE r.persona_professional,
         nulls |-> r.nulls \ sh.missing,
         blank |-> sh.missing]]

\* lines 119-129: a path that cannot be read is skipped with a warning
LoadSkip ==
  /\ script = "prepare_personas_india" /\ pc = "load"
  /\ loadIdx < Len(input)
  /\ ~Shard(input[loadIdx + 1]).loadable
  /\ loadIdx' = loadIdx + 1
  /\ UNCHANGED << script, pc, exit_status, files, error, input, sample_size, seed,
                  frames, nframes, df, sampled, out, personas, meta, geoVars, textVars >>

\* lines 119-143: a path that loads appends its frame
LoadFrame ==
  /\ script = "prepare_personas_india" /\ pc = "load"
  /\ loadIdx < Len(input)
  /\ Shard(input[loadIdx + 1]).loadable
  /\ frames' = frames \o FillMissing(Shard(input[loadIdx + 1]))
  /\ nframes' = nframes + 1
  /\ loadIdx' = loadIdx + 1
  /\ UNCHANGED << script, pc, exit_status, files, error, input, sample_size, seed,
                  df, sampled, out, personas, meta, geoVars, textVars >>

\* lines 145-146: RuntimeError("No parquet files could be loaded.")
LoadNothing ==
  /\ script = "prepare_personas_india" /\ pc = "load"
  /\ loadIdx = Len(input) /\ nframes = 0
  /\ pc' = "fatal" /\ exit_status' = "error"
  /\ error' = "RuntimeError: No parquet files could be loaded."
  /\ UNCHANGED << script, files, personaVars, geoVars, textVars >>

\* line 147 and line 205: df = pl.concat(frames)
LoadDone ==
  /\ script = "prepare_personas_india" /\ pc = "load"
  /\ loadIdx = Len(input) /\ nframes > 0
  /\ df' = frames
  /\ pc' = "loaded"
  /\ UNCHANGED << script, exit_status, files, error, input, sample_size, seed, loadIdx,
                  frames, nframes, sampled, out, personas, meta, geoVars, textVars >>

\* line 209: df.drop_nulls([...]) removes the rows with a null critical cell
DropNulls(f) == SelectSeq(f, LAMBDA r : r.nulls \cap CriticalColumns = {})

PersonaMaxLen == 200

\* lines 212-268: the normalized columns of one row
CleanRow(r) ==
  [uuid |-> IF "uuid" \in r.blank THEN 0 ELSE r.uuid,
   age |-> r.age, sex |-> r.sex, occupation |-> r.occupation,
   state |-> normalize_state(r.state),
   persona |-> compact_text(r.persona_professional, PersonaMaxLen)]

\* line 271: the age filter
AgeFilter(f) == SelectSeq(f, LAMBDA r : r.age >= 18 /\ r.age <= 100)

Cleaned(f) == AgeFilter([i \in 1..Len(DropNulls(f)) |-> CleanRow(DropNulls(f)[i])])

\* line 219: cast(pl.Int64) of an age cell holding "" raises
CastFails(f) == \E i \in 1..Len(DropNulls(f)) : "age" \in DropNulls(f)[i].blank

\* lines 208-274
Clean ==
  /\ script = "prepare_personas_india" /\ pc = "loaded"
  /\ ~CastFails(df)
  /\ df' = Cleaned(df)
  /\ pc' = "sample"
  /\ UNCHANGED << script, exit_status, files, error, input, sample_size, seed, loadIdx,
                  frames, nframes, sampled, out, personas, meta, geoVars, textVars >>

\* lines 212-219: the cast of a synthesized age column raises
CleanCastError ==
  /\ script = "prepare_personas_india" /\ pc = "loaded"
  /\ CastFails(df)
  /\ pc' = "fatal" /\ exit_status' = "error"
  /\ error' = "InvalidOperationError: conversion from str to i64 failed"
  /\ UNCHANGED << script, files, personaVars, geoVars, textVars >>

\* lines 281-287: the personas file is written
WritePersonas ==
  /\ script = "prepare_personas_india" /\ pc = "sampled"
  /\ personas' = out
  /\ files' = files \cup {"personas.compact.india.json"}
  /\ pc' = "written"
  /\ UNCHANGED << script, exit_status, error, input, sample_size, seed, loadIdx,
                  frames, nframes, df, sampled, out, meta, geoVars, textVars >>

\* lines 302-303: the metadata file is written and main returns
WriteMeta ==
  /\ script = "prepare_personas_india" /\ pc = "summarized"
  /\ files' = files \cup {"personas.compact.india.meta.json"}
  /\ pc' = "done" /\ exit_status' = "ok"
  /\ UNCHANGED << script, error, personaVars, geoVars, textVars >>

InputLists == UNION {[1..n -> Paths] : n \in 1..MaxInputs}

Init ==
  /\ script = "prepare_personas_india" /\ pc = "load" /\ exit_status = "running"
  /\ files = {} /\ error = ""
  /\ input \in InputLists
  /\ sample_size \in 0..MaxTarget /\ seed \in 0..MaxSeed
  /\ loadIdx = 0 /\ frames = <<>> /\ nframes = 0 /\ df = <<>>
  /\ sampled = <<>> /\ out = <<>> /\ personas = <<>> /\ meta = <<>>
  /\ IdleGeo /\ IdleText

Next ==
  \/ LoadSkip \/ LoadFrame \/ LoadNothing \/ LoadDone
  \/ Clean \/ CleanCastError
  \/ NoStates \/ DrawPerState \/ TrimToSize \/ TopUp \/ TopUpShort
  \/ WritePersonas \/ Summarize \/ SummarizeEmpty \/ WriteMeta

Spec == Init /\ [][Next]_vars

-----------------------------------------------------------------------------
(* The GeoJSON scripts.  net[i] is what source i answers during the run:   *)
(* a failed request, bytes that are not JSON, a JSON object without        *)
(* "features", a feature collection one of whose features has no           *)
(* "properties", or a well-formed feature collection.                      *)

NumSources     == 4
GeoJsonUrlIdx  == 4

ResponseKinds == {"fail", "garbage", "json_no_features", "json_bad_feature", "json"}

Feature(hasProps, name) ==
  [has_properties |-> hasProps, ST_NM |-> name, state_name |-> <<>>]

FeaturesOf(kind) ==
  CASE kind = "json" ->
         << Feature(TRUE, <<" ", "a", "\t", " ", "b">>), Feature(TRUE, <<"b">>) >>
    [] kind = "json_bad_feature" ->
         << Feature(TRUE, <<"a">>), Feature(FALSE, <<>>) >>
    [] OTHER -> <<>>

Response(i, kind) == [kind |-> kind, origin |-> i, features |-> FeaturesOf(kind)]

\* urlopen(url).read() returned, whatever the bytes are
FetchOk(r) == r.kind # "fail"

\* json.loads(data) succeeds
Parses(r) == r.kind \in {"json_no_features", "json_bad_feature", "json"}

\* the loop of _dl_geojson.py without its break
LoopEndsNoBreak(i, ok) == i = NumSources

\* lines 12-19: the loop ends on the first success (break) or with the list
LoopEnds(i, ok) == ok \/ i = NumSources

\* _dl_geojson.py lines 12-19: one iteration of the loop over SOURCES
DlTry ==
  /\ script = "_dl_geojson" /\ pc = "fetch"
  /\ idx < NumSources
  /\ LET r == net[idx + 1]
     IN /\ data' = IF FetchOk(r) THEN r ELSE data
        /\ pc' = IF LoopEnds(idx + 1, FetchOk(r)) THEN "fetched" ELSE "fetch"
  /\ idx' = idx + 1
  /\ tried' = Append(tried, idx + 1)
  /\ UNCHANGED << script, exit_status, files, error, net, geojson, personaVars, textVars >>

\* _dl_geojson.py lines 21-23: data is None, sys.exit(1)
DlAllFailed ==
  /\ script = "_dl_geojson" /\ pc = "fetched"
  /\ data = NoData
  /\ pc' = "fatal" /\ exit_status' = "error"
  /\ error' = "All sources failed. Check internet connection."
  /\ UNCHANGED << script, files, geoVars, personaVars, textVars >>

\* _dl_geojson.py lines 25-26: the bytes are written as downloaded
DlWrite ==
  /\ script = "_dl_geojson" /\ pc = "fetched"
  /\ data # NoData
  /\ files' = files \cup {"india-states.geojson"}
  /\ geojson' = data
  /\ pc' = "wrote"
  /\ UNCHANGED << script, exit_status, error, net, idx, tried, data, personaVars, textVars >>

\* _dl_geojson.py lines 27-28: json.loads(data) and g['features'] succeed
DlParse ==
  /\ script = "_dl_geojson" /\ pc = "wrote"
  /\ Parses(data) /\ data.kind # "json_no_features"
  /\ pc' = "done" /\ exit_status' = "ok"
  /\ UNCHANGED << script, files, error, geoVars, personaVars, textVars >>

\* _dl_geojson.py lines 27-28: json.loads raises, or g['features'] does
DlParseError ==
  /\ script = "_dl_geojson" /\ pc = "wrote"
  /\ ~(Parses(data) /\ data.kind # "json_no_features")
  /\ pc' = "fatal" /\ exit_status' = "error"
  /\ error' = IF Parses(data) THEN "KeyError: 'features'" ELSE "JSONDecodeError"
  /\ UNCHANGED << script, files, geoVars, personaVars, textVars >>

\* download_india_geojson.py lines 33-36: the request succeeds
Download ==
  /\ script = "download_india_geojson" /\ pc = "fetch"
  /\ FetchOk(net[GeoJsonUrlIdx])
  /\ data' = net[GeoJsonUrlIdx]
  /\ tried' = Append(tried, GeoJsonUrlIdx)
  /\ pc' = "fetched"
  /\ UNCHANGED << script, exit_status, files, error, net, idx, geojson, personaVars, textVars >>

\* download_india_geojson.py lines 37-44: the request fails, sys.exit(1)
DownloadFailed ==
  /\ script = "download_india_geojson" /\ pc = "fetch"
  /\ ~FetchOk(net[GeoJsonUrlIdx])
  /\ tried' = Append(tried, GeoJsonUrlIdx)
  /\ pc' = "fatal" /\ exit_status' = "error"
  /\ error' = "ERROR: download failed"
  /\ UNCHANGED << script, files, net, idx, data, geojson, personaVars, textVars >>

\* download_india_geojson.py line 46: json.loads(raw) succeeds
ParseRaw ==
  /\ script = "download_india_geojson" /\ pc = "fetched"
  /\ Parses(data)
  /\ pc' = "parsed"
  /\ UNCHANGED << script, exit_status, files, error, geoVars, personaVars, textVars >>

\* download_india_geojson.py line 46: json.loads(raw) raises
ParseRawError ==
  /\ script = "download_india_geojson" /\ pc = "fetched"
  /\ ~Parses(data)
  /\ pc' = "fatal" /\ exit_status' = "error"
  /\ error' = "JSONDecodeError"
  /\ UNCHANGED << script, files, geoVars, personaVars, textVars >>

\* lines 50-55: every feature gets properties.state_name = normalise(ST_NM)
Normalised(doc) ==
  [doc EXCEPT !.features =
     [i \in 1..Len(doc.features) |->
        [doc.features[i] EXCEPT !.state_name = normalise(doc.features[i].ST_NM)]]]

AllHaveProperties(doc) ==
  \A i \in 1..Len(doc.features) : doc.features[i].has_properties

\* download_india_geojson.py lines 48-55: the loop over the features
NormaliseFeatures ==
  /\ script = "download_india_geojson" /\ pc = "parsed"
  /\ AllHaveProperties(data)
  /\ data' = Normalised(data)
  /\ pc' = "normalised"
  /\ UNCHANGED << script, exit_status, files, error, net, idx, tried, geojson,
                  personaVars, textVars >>

\* line 54: feature["properties"] of a feature without properties raises
NormaliseError ==
  /\ script = "download_india_geojson" /\ pc = "parsed"
  /\ ~AllHaveProperties(data)
  /\ pc' = "fatal" /\ exit_status' = "error"
  /\ error' = "KeyError: 'properties'"
  /\ UNCHANGED << script, files, geoVars, personaVars, textVars >>

\* download_india_geojson.py lines 57-69: the file is written, main returns
WriteGeoJson ==
  /\ script = "download_india_geojson" /\ pc = "normalised"
  /\ files' = files \cup {"india-states.geojson"}
  /\ geojson' = data
  /\ pc' = "done" /\ exit_status' = "ok"
  /\ UNCHANGED << script, error, net, idx, tried, data, personaVars, textVars >>

InitGeo ==
  /\ script \in {"_dl_geojson", "download_india_geojson"}
  /\ pc = "fetch" /\ exit_status = "running"
  /\ files = {} /\ error = ""
  /\ \E kinds \in [1..NumSources -> ResponseKinds] :
        net = [i \in 1..NumSources |-> Response(i, kinds[i])]
  /\ idx = 0 /\ tried = <<>> /\ data = NoData /\ geojson = NoData
  /\ IdlePersona /\ IdleText

NextGeo ==
  \/ DlTry \/ DlAllFailed \/ DlWrite \/ DlParse \/ DlParseError
  \/ Download \/ DownloadFailed \/ ParseRaw \/ ParseRawError
  \/ NormaliseFeatures \/ NormaliseError \/ WriteGeoJson

SpecGeo == InitGeo /\ [][NextGeo]_vars

(* The three scripts together.                                             *)
InitScripts == Init \/ InitGeo

NextScripts == Next \/ NextGeo

SpecScripts == InitScripts /\ [][NextScripts]_vars

-----------------------------------------------------------------------------
(* compact_text as a program: the arguments are drawn from every text over *)
(* a letter and two kinds of whitespace, and every small max_len.          *)

TextChars == {"a", " ", "\t"}

Texts == UNION {[1..n -> TextChars] : n \in 0..MaxTextLen}

InitText ==
  /\ script = "compact_text" /\ pc = "call" /\ exit_status = "running"
  /\ files = {} /\ error = ""
  /\ value \in Texts /\ max_len \in 0..MaxMaxLen /\ compacted = <<>>
  /\ IdlePersona /\ IdleGeo

CompactText ==
  /\ script = "compact_text" /\ pc = "call"
  /\ compacted' = compact_text(value, max_len)
  /\ pc' = "returned"
  /\ UNCHANGED << script, exit_status, files, error, value, max_len, personaVars, geoVars >>

NextText == CompactText

SpecText == InitText /\ [][NextText]_vars

-----------------------------------------------------------------------------
(* Claims about compact_text (checked under SpecText).                     *)

NonSpace(c) == c \notin Whitespace

\* s is whitespace-collapsed: no whitespace at either end, single spaces only
IsCollapsed(s) ==
  /\ \A i \in 1..Len(s) : s[i] \in Whitespace =>
        /\ s[i] = " " /\ 1 < i /\ i < Len(s)
        /\ s[i + 1] \notin Whitespace

\* C7 (as stated): for any text and ANY max length L the result of
\* compact_text has length at most L, and when the collapsed text fits in L
\* the result is the collapsed text, unchanged.
C7_TruncationLawAnyL ==
  pc = "returned" =>
    /\ Len(compacted) <= max_len
    /\ (Len(Collapse(value)) <= max_len => compacted = Collapse(value))

\* C7 (amended): for any text and any max length L >= 3 the result has
\* length at most L; and for every L, when the whitespace-collapsed, trimmed
\* text has length at most L, the result is that collapsed form: it is
\* collapsed, keeps exactly the non-whitespace characters of the text in
\* order, and carries no ellipsis.
C7_TruncationLaw ==
  pc = "returned" =>
    /\ (max_len >= 3 => Len(compacted) <= max_len)
    /\ (Len(Collapse(value)) <= max_len =>
          /\ compacted = Collapse(value)
          /\ IsCollapsed(compacted)
          /\ SelectSeq(compacted, NonSpace) = SelectSeq(value, NonSpace))

\* C7 witness: a call with L >= 3 that had to truncate a text containing
\* whitespace, and returned a string ending in the ellipsis.
C7_Witness ==
  /\ pc = "returned" /\ max_len >= 3
  /\ Len(Collapse(value)) > max_len
  /\ \E i \in 1..Len(value) : value[i] \in Whitespace
  /\ SubSeq(compacted, Len(compacted) - 2, Len(compacted)) = Ellipsis

-----------------------------------------------------------------------------
(* Claims about stratified_sample (checked under SpecSample).              *)

TookTopUp == pc \in {"sampled", "summarized"} /\ Len(sampled) < sample_size

CountState(f, st) == Cardinality({i \in 1..Len(f) : f[i].state = st})

CountSex(f, sx) == Cardinality({i \in 1..Len(f) : f[i].sex = sx})

UsableStates(f) == {st \in DistinctStates(f) : st # <<>>}

UuidsDistinct(f) == \A i, j \in 1..Len(f) : i # j => f[i].uuid # f[j].uuid

\* C1: whenever stratified_sample returns, the sample has exactly
\* sample_size rows when the table has at least sample_size rows, and as
\* many rows as the table otherwise (trim branch and top-up branch alike,
\* rows with an empty state included in the count).
C1_SizeInvariant ==
  pc \in {"sampled", "summarized"} =>
    Len(out) = (IF Len(df) >= sample_size THEN sample_size ELSE Len(df))

\* C1 witness: the top-up branch returned for a table that has a row with
\* an empty state, and the sample reached the target exactly.
C1_Witness ==
  /\ TookTopUp
  /\ \E i \in 1..Len(df) : df[i].state = <<>>
  /\ Len(df) > sample_size /\ Len(out) = sample_size

\* C2 (as stated): for EVERY input table the returned sample has no two
\* rows with the same uuid.
C2_NoDuplicateAnyTable ==
  pc \in {"sampled", "summarized"} => UuidsDistinct(out)

\* C2 (amended): for every input table whose uuids are pairwise distinct,
\* the returned sample has no two rows with the same uuid; in particular no
\* row of the per-state draws is drawn again by the top-up.
C2_NoDuplicate ==
  (pc \in {"sampled", "summarized"} /\ UuidsDistinct(df)) =>
    /\ UuidsDistinct(out)
    /\ \A i \in 1..Len(out) : \E j \in 1..Len(df) : out[i] = df[j]

\* C2 witness: a table without repeated uuids, the top-up branch taken and
\* at least one row added by it.
C2_Witness ==
  /\ TookTopUp /\ UuidsDistinct(df)
  /\ Len(sampled) > 0 /\ Len(out) > Len(sampled)

\* what stratified_sample returns from a pool
ReturnOf(f, pool, n, sd) ==
  IF Len(pool) >= n THEN TrimDraw(pool, n, sd)
  ELSE pool \o Draw(AntiJoin(f, pool), TopUpCount(f, pool, n), sd + TopUpSeedOffset)

\* C3: a run's pool, returned sequence and metadata are the ones of every
\* other run on the same (df, sample_size, seed), whatever order the other
\* run discovers the distinct states in: state i of the sorted list is drawn
\* with seed + i, the trim with seed + 997, the top-up with seed + 2048.
C3_Deterministic ==
  /\ pc \in {"drawn", "sampled", "summarized"} =>
       \A other \in Orders(DistinctStates(df)) :
          /\ sampled = PerStateDraws(df, sample_size, seed, other)
          /\ LET ordered == SortedOf(NonEmptyStates(other))
             IN \A i \in 1..Len(ordered) :
                  LET g == FilterState(df, ordered[i])
                      n == Min(PerStateTarget(sample_size, ordered), Len(g))
                  IN FilterState(sampled, ordered[i]) = Draw(g, n, seed + i - 1)
  /\ pc \in {"sampled", "summarized"} =>
       \A other \in Orders(DistinctStates(df)) :
          out = ReturnOf(df, PerStateDraws(df, sample_size, seed, other),
                         sample_size, seed)
  /\ pc = "summarized" =>
       \A other \in Orders(DistinctStates(df)) :
          LET o2 == ReturnOf(df, PerStateDraws(df, sample_size, seed, other),
                             sample_size, seed)
          IN meta = MetaOf(o2, o2, seed)

\* C3 witness: a finished run on a table with two usable states (so two
\* discovery orders exist) whose sample has rows of both.
C3_Witness ==
  /\ pc = "summarized"
  /\ Cardinality(UsableStates(df)) >= 2
  /\ Cardinality(UsableStates(out)) >= 2

\* C10: with per = max(1, sample_size \div numGroups), the pool holds exactly
\* min(per, groupSize) rows of each group and nothing else; on the top-up
\* branch the returned sample starts with the whole pool, so each group
\* keeps at least min(per, groupSize) rows, and the top-up adds exactly
\* min(sample_size - poolSize, rows whose uuid is not in the pool) rows.
C10_PerGroupCoverage ==
  /\ pc \in {"drawn", "sampled", "summarized"} =>
       LET groups == UsableStates(df)
           per == IF sample_size \div Cardinality(groups) >= 1
                  THEN sample_size \div Cardinality(groups) ELSE 1
       IN /\ \A g \in groups :
                LET size == CountState(df, g)
                IN CountState(sampled, g) = (IF per <= size THEN per ELSE size)
          /\ \A i \in 1..Len(sampled) : sampled[i].state \in groups
  /\ TookTopUp =>
       LET notInPool == Cardinality({i \in 1..Len(df) :
                             \A k \in 1..Len(sampled) : sampled[k].uuid # df[i].uuid})
           want == sample_size - Len(sampled)
       IN /\ SubSeq(out, 1, Len(sampled)) = sampled
          /\ Len(out) - Len(sampled) = (IF want <= notInPool THEN want ELSE notInPool)

\* C10 witness: the scenario {A:10, B:2, C:10} with sample_size 9: draws of
\* 3, 2 and 3, a pool of 8, one top-up row, 9 rows returned.
C10_Witness ==
  /\ pc = "sampled" /\ df = ScenarioTable /\ sample_size = 9
  /\ CountState(sampled, <<"A">>) = 3
  /\ CountState(sampled, <<"B">>) = 2
  /\ CountState(sampled, <<"C">>) = 3
  /\ Len(sampled) = 8 /\ Len(out) = 9

-----------------------------------------------------------------------------
(* Claims about main of prepare_personas_india.py (checked under Spec).    *)

NoStatesError == "RuntimeError: No states found after cleaning."

SummaryError == "TypeError: int() argument must be a string or a number, not NoneType"

\* C5: stratified_sample raises, and returns nothing, whenever the table is
\* empty or has no non-empty state: with such a table the raise is the one
\* step it can take, no later stage of the sampler is ever reached with
\* it, and in main the raise ends the run with a non-zero status, no sample
\* and no output artifact written.
C5_NoStatesRaises ==
  /\ (pc = "sample" /\ UsableStates(df) = {}) =>
        ENABLED NoStates /\ ~ENABLED DrawPerState
  /\ (pc \in {"drawn", "sampled", "written", "summarized", "done"}) =>
        UsableStates(df) # {}
  /\ error = NoStatesError =>
        /\ UsableStates(df) = {}
        /\ pc = "fatal" /\ exit_status = "error"
        /\ sampled = <<>> /\ out = <<>> /\ personas = <<>> /\ files = {}
        /\ ~ENABLED Next

\* C5 witness: main ended by the raise on a table that has rows, none of
\* them with a non-empty state.
C5_Witness ==
  /\ script = "prepare_personas_india" /\ error = NoStatesError
  /\ Len(df) > 0 /\ \A i \in 1..Len(df) : df[i].state = <<>>

\* C8 (as stated): every row of the cleaned table handed to the sampler
\* has a non-empty uuid, state, persona, sex and occupation (rows whose
\* value is an empty string, synthesized or produced by normalization, were
\* dropped).
C8_NoMissingFieldsAfterCleaning ==
  (script = "prepare_personas_india"
     /\ pc \in {"sample", "drawn", "sampled", "written", "summarized", "done"}) =>
    \A i \in 1..Len(df) :
       /\ df[i].uuid # 0 /\ df[i].state # <<>> /\ df[i].persona # <<>>
       /\ df[i].sex # "" /\ df[i].occupation # ""

RECURSIVE SumOver(_, _)
SumOver(f, keys) ==
  IF keys = {} THEN 0
  ELSE LET k == CHOOSE x \in keys : TRUE IN f[k] + SumOver(f, keys \ {k})

MetaCorrect ==
  /\ meta.total = Len(out)
  /\ meta.seed = seed
  /\ DOMAIN meta.states = {out[i].state : i \in 1..Len(out)}
  /\ \A st \in DOMAIN meta.states :
        meta.states[st] = CountState(out, st)
  /\ SumOver(meta.states, DOMAIN meta.states) = meta.total
  /\ \E i \in 1..Len(out) : out[i].age = meta.age_min
  /\ \E i \in 1..Len(out) : out[i].age = meta.age_max
  /\ \A i \in 1..Len(out) : meta.age_min <= out[i].age /\ out[i].age <= meta.age_max
  /\ DOMAIN meta.sex_counts = {out[i].sex : i \in 1..Len(out)}
  /\ \A sx \in DOMAIN meta.sex_counts :
        meta.sex_counts[sx] = CountSex(out, sx)
  /\ SumOver(meta.sex_counts, DOMAIN meta.sex_counts) = meta.total

\* C9 (as stated): the metadata of every final sample has the right total,
\* per-state counts, age_min, age_max and per-sex counts, and the summarizer
\* is defined on EVERY sample the sampler can return (it never raises).
C9_MetadataAnySample ==
  /\ pc \in {"summarized", "done"} => MetaCorrect
  /\ error # SummaryError

\* C9 (amended): for every non-empty final sample the metadata has total
\* equal to the number of sample rows, one states entry per distinct state
\* of the sample with its row count (summing to total), age_min and age_max
\* the minimum and maximum age of the sample, and one sex_counts entry per
\* distinct sex (summing to total); the summarizer is defined on every
\* non-empty sample, and raises exactly on the empty sample, which the
\* sampler returns for sample_size 0.
C9_Metadata ==
  /\ pc \in {"summarized", "done"} => MetaCorrect
  /\ (pc = "written" /\ Len(out) > 0) => ENABLED Summarize /\ ~ENABLED SummarizeEmpty
  /\ error = SummaryError => Len(out) = 0 /\ sample_size = 0

\* C9 witness: metadata computed for a sample with two states, both sexes
\* and different ages.
C9_Witness ==
  /\ script = "prepare_personas_india" /\ pc = "done"
  /\ Cardinality(DOMAIN meta.states) >= 2
  /\ Cardinality(DOMAIN meta.sex_counts) = 2
  /\ meta.age_min < meta.age_max
  /\ meta.total >= 3

-----------------------------------------------------------------------------
(* Claims about the scripts' failures and the GeoJSON fetch.               *)

\* C4: on every fatal path of every script (a run ending with a non-zero
\* status) no output file has been written.
C4_NoOutputOnFatalPath ==
  exit_status = "error" => files = {}

Candidates ==
  IF script = "_dl_geojson" THEN [i \in 1..NumSources |-> i] ELSE <<GeoJsonUrlIdx>>

AllFailed == \A k \in 1..Len(Candidates) : ~FetchOk(net[Candidates[k]])

FirstOk ==
  CHOOSE k \in 1..Len(Candidates) :
     /\ FetchOk(net[Candidates[k]])
     /\ \A j \in 1..(k - 1) : ~FetchOk(net[Candidates[j]])

\* the candidates are tried in list order, the fetch stops at the first
\* success and the data used (and written) is that candidate's
FetchInOrder ==
  /\ Len(tried) <= Len(Candidates)
  /\ tried = SubSeq(Candidates, 1, Len(tried))
  /\ \A k \in 1..(Len(tried) - 1) : ~FetchOk(net[tried[k]])
  /\ pc # "fetch" =>
       IF AllFailed
       THEN tried = Candidates /\ data = NoData
       ELSE /\ Len(tried) = FirstOk
            /\ data.origin = Candidates[FirstOk]
            /\ data.kind = net[Candidates[FirstOk]].kind
  /\ "india-states.geojson" \in files =>
       ~AllFailed /\ geojson.origin = Candidates[FirstOk]

\* C6 (as stated): the fetch tries the candidates in list order, stops at
\* the first success, uses its data, and the run terminates with a non-zero
\* status if and only if every candidate failed.
C6_FetchNonZeroIffAllFailed ==
  /\ FetchInOrder
  /\ exit_status # "running" => (exit_status = "error" <=> AllFailed)

\* C6 (amended): the fetch tries the candidates in list order, stops at the
\* first success and uses its data; it ends the run with its own non-zero
\* exit if and only if every candidate failed.  A run whose fetch succeeded
\* still ends with a non-zero status exactly when the downloaded document
\* cannot be processed (it is not JSON, or lacks the key the script reads).
C6_FetchOrder ==
  /\ FetchInOrder
  /\ exit_status # "running" =>
       /\ AllFailed => exit_status = "error"
       /\ AllFailed <=> error \in {"All sources failed. Check internet connection.",
                                   "ERROR: download failed"}
       /\ ~AllFailed =>
            (exit_status = "error" <=>
               \/ ~Parses(data)
               \/ script = "_dl_geojson" /\ data.kind = "json_no_features"
               \/ script = "download_india_geojson" /\ ~AllHaveProperties(data))

\* C6 witness: _dl_geojson.py ended with status 0 on the second source after
\* the first failed, leaving a third that would have answered untried.
C6_Witness ==
  /\ script = "_dl_geojson" /\ exit_status = "ok"
  /\ tried = <<1, 2>> /\ FetchOk(net[3])
  /\ geojson.origin = 2

====
